---- MODULE Spec2Model ----
(***************************************************************************)
(* Model of src/streamlit_app.py: a Streamlit script that is re-executed   *)
(* from top to bottom on every widget event.  One action of the model is   *)
(* one complete script run.  st.session_state.current_page and the widget  *)
(* values survive between runs; everything else is recomputed by the run.  *)
(*                                                                         *)
(* Python list positions are 0-based; the model numbers metadata records   *)
(* and list positions from 1, so metadata[idx] of the code is              *)
(* metadata[idx] here with idx shifted by one.  Slice bounds keep the      *)
(* code's 0-based values (start_idx, end_idx) and PySlice converts.        *)
(***************************************************************************)
EXTENDS Integers, Sequences, FiniteSets, TLC

VARIABLES
  metadata,            \* list of story records returned by load_index()
  query,               \* value of the text_input "query_input"
  selected_continent,  \* value of selectbox "continent_select"
  selected_culture,    \* value of selectbox "culture_select"
  selected_creature,   \* value of selectbox "creature_select"
  current_page,        \* st.session_state.current_page
  scored_items,        \* locals of the last run of the query branch
  filtered_results,
  total_results,
  total_pages,
  shown,               \* TRUE iff the last run rendered the "Page X of Y" header
  page_shown,          \* current_page as read by the last render
  page_items,          \* filtered_results[start_idx:end_idx] of the last render
  rendered_count,      \* stories of the page fully rendered by the last run
  error,               \* TRUE iff the last run stopped with an uncaught KeyError
  prev_enabled,        \* "Previous" is on screen and not disabled
  next_enabled,        \* "Next" is on screen and not disabled
  handler,             \* callback executed by the last run
  changed,             \* the last run was triggered by a query or filter change
  page_no,             \* pages taken so far when walking all pages of a list
  assembled            \* concatenation of the pages taken so far

vars == <<metadata, query, selected_continent, selected_culture,
          selected_creature, current_page, scored_items, filtered_results,
          total_results, total_pages, shown, page_shown, page_items,
          rendered_count, error, prev_enabled, next_enabled, handler,
          changed, page_no, assembled>>

\* ------------------------------------------------------------------ constants
RESULTS_PER_PAGE == 10
MAX_PAGES == 50

\* ------------------------------------------------------------------ bounds
NumStories == 505      \* size of the corpus of the session specification
MaxStories == 3        \* longest corpus of the arbitrary-corpus specification
MaxItems == 505        \* longest filtered list of the pagination specification

Min(a, b) == IF a < b THEN a ELSE b
Max(a, b) == IF a > b THEN a ELSE b

All == "All"
Queries == {"", "a", "b"}

\* ------------------------------------------------------------------ corpus
\* A record of metadata.json.  filename, culture, continent and
\* species_mentions are optional keys; species_mentions maps a species name
\* to its mention count.
Story(i) ==
  IF i = 503
    THEN [filename |-> i, continent |-> "Europe"]
    ELSE [filename |-> i,
          continent |-> IF i <= 25 THEN "Asia" ELSE "Europe",
          culture |-> IF i <= 25 THEN "Han" ELSE "Norse",
          species_mentions |-> IF i % 4 = 0 THEN [s \in {"fox"} |-> 1]
                                            ELSE [s \in {} |-> 0]]

BigCorpus == [i \in 1..NumStories |-> Story(i)]

RecordShapes ==
  { [filename |-> 1, continent |-> "Asia", culture |-> "Han",
     species_mentions |-> [s \in {"fox"} |-> 1]],
    [filename |-> 2, continent |-> "Europe", culture |-> "Norse",
     species_mentions |-> [s \in {} |-> 0]],
    [filename |-> 3, continent |-> "Asia", culture |-> "Norse"],
    [filename |-> 4, continent |-> "Asia",
     species_mentions |-> [s \in {"fox"} |-> 2]],
    [continent |-> "Europe", culture |-> "Han",
     species_mentions |-> [s \in {"fox", "owl"} |-> 1]] }

SmallCorpora == UNION { [1..n -> RecordShapes] : n \in 0..MaxStories }

\* ------------------------------------------------------------------ sidebar
all_continents(md) ==
  { md[i].continent : i \in { j \in DOMAIN md : "continent" \in DOMAIN md[j] } }

all_cultures(md) ==
  { md[i].culture : i \in { j \in DOMAIN md : "culture" \in DOMAIN md[j] } }

all_species(md) ==
  UNION { DOMAIN md[i].species_mentions :
            i \in { j \in DOMAIN md : "species_mentions" \in DOMAIN md[j] } }

\* ------------------------------------------------------------------ search
\* index.search(q_vec, k): the k nearest rows of the index, best first, as
\* (score, idx) pairs.  The index holds one row per metadata record.  The
\* encoder and the index are opaque: query "a" ranks the rows in index order,
\* any other query in the opposite order; the score falls with the rank.
Ranking(q, n) == [r \in 1..n |-> IF q = "a" THEN r ELSE n + 1 - r]

search(q, n, k) ==
  [r \in 1..Min(k, n) |-> <<n - r, Ranking(q, n)[r]>>]

\* Variant: only the best RESULTS_PER_PAGE rows are requested.
SearchK_top(md) == RESULTS_PER_PAGE

SearchK(md) == Len(md)

\* ------------------------------------------------------------------ filters
None == "None"

Get(story, key) == IF key \in DOMAIN story THEN story[key] ELSE None

\* TRUE iff the loop body reaches filtered_results.append for this story
\* (none of the three `continue` statements is taken).
Keep(story, cont, cult, crea) ==
  /\ ~(cont # All /\ Get(story, "continent") # cont)
  /\ ~(cult # All /\ Get(story, "culture") # cult)
  /\ ~(/\ crea # All
       /\ \/ "species_mentions" \notin DOMAIN story
          \/ crea \notin DOMAIN story.species_mentions)

Reverse(s) == [i \in 1..Len(s) |-> s[Len(s) + 1 - i]]

\* Variant: kept items are inserted at the front of the list.
FilterLoop_front(md, scored, cont, cult, crea) ==
  Reverse(SelectSeq(scored, LAMBDA it : Keep(md[it[2]], cont, cult, crea)))

FilterLoop(md, scored, cont, cult, crea) ==
  SelectSeq(scored, LAMBDA it : Keep(md[it[2]], cont, cult, crea))

\* ------------------------------------------------------------------ paging
\* Variant: count // RESULTS_PER_PAGE + 1, one page too many on full pages.
TotalPages_floor(count) ==
  Min(MAX_PAGES, Max(1, (count \div RESULTS_PER_PAGE) + 1))

\* Variant: the page count is not capped by MAX_PAGES.
TotalPages_uncapped(count) ==
  Max(1, ((count - 1) \div RESULTS_PER_PAGE) + 1)

TotalPages(count) ==
  Min(MAX_PAGES, Max(1, ((count - 1) \div RESULTS_PER_PAGE) + 1))

\* Variant: the offset is taken from the page number itself.
StartIdx_shifted(page) == page * RESULTS_PER_PAGE

StartIdx(page) == (page - 1) * RESULTS_PER_PAGE

EndIdx(page) == StartIdx(page) + RESULTS_PER_PAGE

\* Python's s[a:b]: a negative bound counts from the end, and both bounds are
\* clamped to [0, len(s)].
SliceBound(i, n) == IF i < 0 THEN Max(i + n, 0) ELSE Min(i, n)

PySlice(s, a, b) ==
  SubSeq(s, SliceBound(a, Len(s)) + 1, SliceBound(b, Len(s)))

\* Variant: the guard admits the last page.
go_next_inclusive(page, pages) == IF page <= pages THEN page + 1 ELSE page

go_next(page, pages) == IF page < pages THEN page + 1 ELSE page

go_prev(page) == IF page > 1 THEN page - 1 ELSE page

\* ------------------------------------------------------------------ render
\* The body of the result loop reads story['filename'], story['culture'] and
\* story['continent'] without a guard: a story lacking one of them raises
\* KeyError and ends the run.
Renders(story) ==
  /\ "filename" \in DOMAIN story
  /\ "culture" \in DOMAIN story
  /\ "continent" \in DOMAIN story

\* Number of stories of the page rendered before the loop ends or raises.
RenderedCount(md, items) ==
  LET bad == { i \in DOMAIN items : ~Renders(md[items[i][2]]) }
  IN  IF bad = {} THEN Len(items)
      ELSE (CHOOSE i \in bad : \A j \in bad : i <= j) - 1

\* ------------------------------------------------------------------ a run
\* One execution of the script with the given widget values; click is the
\* button whose press triggered the run ("none", "next", "prev" or "read");
\* fires tells whether a pressed pagination button that this run renders
\* disabled still reports the press.
ScriptRun(q, cont, cult, crea, click, fires, isChange) ==
  /\ query' = q
  /\ selected_continent' = cont
  /\ selected_culture' = cult
  /\ selected_creature' = crea
  /\ changed' = isChange
  /\ UNCHANGED <<metadata, page_no, assembled>>
  /\ IF q = ""
       THEN /\ shown' = FALSE
            /\ scored_items' = <<>>
            /\ filtered_results' = <<>>
            /\ total_results' = 0
            /\ total_pages' = 0
            /\ page_shown' = 0
            /\ page_items' = <<>>
            /\ rendered_count' = 0
            /\ error' = FALSE
            /\ prev_enabled' = FALSE
            /\ next_enabled' = FALSE
            /\ handler' = "none"
            /\ UNCHANGED current_page
       ELSE /\ shown' = TRUE
            /\ scored_items' = search(q, Len(metadata), SearchK(metadata))
            /\ filtered_results' =
                 FilterLoop(metadata, scored_items', cont, cult, crea)
            /\ total_results' = Len(filtered_results')
            /\ total_pages' = TotalPages(total_results')
            /\ page_shown' = current_page
            /\ page_items' = PySlice(filtered_results', StartIdx(current_page),
                                     EndIdx(current_page))
            /\ rendered_count' = RenderedCount(metadata, page_items')
            /\ error' = (rendered_count' < Len(page_items'))
            /\ prev_enabled' = (~error' /\ ~(current_page <= 1))
            /\ next_enabled' = (~error' /\ ~(current_page >= total_pages'))
            /\ handler' =
                 IF error' THEN "none"
                 ELSE IF click = "prev" /\ (prev_enabled' \/ fires)
                   THEN "go_prev"
                 ELSE IF click = "next" /\ (next_enabled' \/ fires)
                   THEN "go_next"
                 ELSE IF click = "read" THEN "read"
                 ELSE "none"
            /\ current_page' =
                 IF handler' = "go_prev" THEN go_prev(current_page)
                 ELSE IF handler' = "go_next"
                   THEN go_next(current_page, total_pages')
                 ELSE current_page

ChangeQuery ==
  \E q \in Queries \ {query} :
    ScriptRun(q, selected_continent, selected_culture, selected_creature,
              "none", TRUE, TRUE)

ChangeContinent ==
  \E c \in ({All} \cup all_continents(metadata)) \ {selected_continent} :
    ScriptRun(query, c, selected_culture, selected_creature,
              "none", TRUE, TRUE)

ChangeCulture ==
  \E c \in ({All} \cup all_cultures(metadata)) \ {selected_culture} :
    ScriptRun(query, selected_continent, c, selected_creature,
              "none", TRUE, TRUE)

ChangeCreature ==
  \E c \in ({All} \cup all_species(metadata)) \ {selected_creature} :
    ScriptRun(query, selected_continent, selected_culture, c,
              "none", TRUE, TRUE)

ClickNext ==
  /\ next_enabled
  /\ \E fires \in BOOLEAN :
       ScriptRun(query, selected_continent, selected_culture,
                 selected_creature, "next", fires, FALSE)

ClickPrev ==
  /\ prev_enabled
  /\ \E fires \in BOOLEAN :
       ScriptRun(query, selected_continent, selected_culture,
                 selected_creature, "prev", fires, FALSE)

ClickRead ==
  /\ rendered_count > 0
  /\ ScriptRun(query, selected_continent, selected_culture,
               selected_creature, "read", TRUE, FALSE)

\* State after the first run of a new session: empty query, every selectbox
\* on its first option, current_page created with value 1.
FirstRun(md) ==
  /\ metadata = md
  /\ query = ""
  /\ selected_continent = All
  /\ selected_culture = All
  /\ selected_creature = All
  /\ current_page = 1
  /\ scored_items = <<>>
  /\ filtered_results = <<>>
  /\ total_results = 0
  /\ total_pages = 0
  /\ shown = FALSE
  /\ page_shown = 0
  /\ page_items = <<>>
  /\ rendered_count = 0
  /\ error = FALSE
  /\ prev_enabled = FALSE
  /\ next_enabled = FALSE
  /\ handler = "none"
  /\ changed = FALSE
  /\ page_no = 0
  /\ assembled = <<>>

Init == FirstRun(BigCorpus)

Next ==
  \/ ChangeQuery
  \/ ChangeContinent
  \/ ChangeCulture
  \/ ChangeCreature
  \/ ClickNext
  \/ ClickPrev
  \/ ClickRead

Spec == Init /\ [][Next]_vars

\* The same session over every corpus of at most MaxStories records.  Such a
\* corpus never fills a page, so the pagination buttons stay disabled.
InitCorpora == \E md \in SmallCorpora : FirstRun(md)

NextCorpora ==
  \/ ChangeQuery
  \/ ChangeContinent
  \/ ChangeCulture
  \/ ChangeCreature
  \/ ClickRead

SpecCorpora == InitCorpora /\ [][NextCorpora]_vars

\* ------------------------------------------------------------------ pages
\* The paging arithmetic on its own: a filtered list of any length up to
\* MaxItems, its page count, and its pages taken one after the other.
RankedList(n) == [i \in 1..n |-> <<n - i, i>>]

InitPaginate ==
  /\ \E n \in 0..MaxItems : filtered_results = RankedList(n)
  /\ metadata = <<>>
  /\ query = "a"
  /\ selected_continent = All
  /\ selected_culture = All
  /\ selected_creature = All
  /\ current_page = 1
  /\ scored_items = <<>>
  /\ total_results = 0
  /\ total_pages = 0
  /\ shown = FALSE
  /\ page_shown = 0
  /\ page_items = <<>>
  /\ rendered_count = 0
  /\ error = FALSE
  /\ prev_enabled = FALSE
  /\ next_enabled = FALSE
  /\ handler = "none"
  /\ changed = FALSE
  /\ page_no = 0
  /\ assembled = <<>>

CountPages ==
  /\ total_pages = 0
  /\ total_results' = Len(filtered_results)
  /\ total_pages' = TotalPages(total_results')
  /\ UNCHANGED <<metadata, query, selected_continent, selected_culture,
                 selected_creature, current_page, scored_items,
                 filtered_results, shown, page_shown, page_items,
                 rendered_count, error, prev_enabled, next_enabled, handler,
                 changed, page_no, assembled>>

TakePage ==
  /\ total_pages > 0
  /\ page_no < total_pages
  /\ page_no' = page_no + 1
  /\ page_items' = PySlice(filtered_results, StartIdx(page_no'),
                           EndIdx(page_no'))
  /\ assembled' = assembled \o page_items'
  /\ UNCHANGED <<metadata, query, selected_continent, selected_culture,
                 selected_creature, current_page, scored_items,
                 filtered_results, total_results, total_pages, shown,
                 page_shown, rendered_count, error, prev_enabled,
                 next_enabled, handler, changed>>

NextPaginate ==
  \/ CountPages
  \/ TakePage

SpecPaginate == InitPaginate /\ [][NextPaginate]_vars

\* ================================================================== claims
\* ceil(n / d) for n >= 0 and d >= 1, by its defining inequalities.
Ceil(n, d) == CHOOSE k \in 0..n : k * d >= n /\ (k - 1) * d < n

\* The filter contract: the story satisfies every active filter.
Satisfies(story, cont, cult, crea) ==
  /\ cont = All \/ ("continent" \in DOMAIN story /\ story.continent = cont)
  /\ cult = All \/ ("culture" \in DOMAIN story /\ story.culture = cult)
  /\ crea = All \/ (/\ "species_mentions" \in DOMAIN story
                    /\ crea \in DOMAIN story.species_mentions)

Selected(story) ==
  Satisfies(story, selected_continent, selected_culture, selected_creature)

FilterActive ==
  \/ selected_continent # All
  \/ selected_culture # All
  \/ selected_creature # All

\* Position of an item in a list without repetitions (0 when absent).
PosIn(list, item) ==
  IF \E p \in DOMAIN list : list[p] = item
    THEN CHOOSE p \in DOMAIN list : list[p] = item
    ELSE 0

\* C1 (as stated): every render of results shows a page number inside
\* [1, total_pages], total_pages being computed from that run's filtered
\* results.
C1_Claim ==
  shown => /\ total_pages = Min(MAX_PAGES,
                                Max(1, Ceil(total_results, RESULTS_PER_PAGE)))
           /\ 1 <= page_shown
           /\ page_shown <= total_pages

\* C2 (as stated): a run triggered by a change of the query or of a filter
\* renders page 1.
C2_Claim == (shown /\ changed) => page_shown = 1

\* C3: go_next adds exactly 1 below the last page and is a no-op otherwise;
\* go_prev subtracts exactly 1 above page 1 and is a no-op otherwise.
C3_Thm ==
  /\ handler = "go_next" =>
       current_page = IF page_shown < total_pages THEN page_shown + 1
                                                  ELSE page_shown
  /\ handler = "go_prev" =>
       current_page = IF page_shown > 1 THEN page_shown - 1 ELSE page_shown

\* go_next ran on the last page and left current_page alone.
C3_Witness ==
  /\ handler = "go_next"
  /\ page_shown = total_pages
  /\ total_pages > 1
  /\ current_page = page_shown

\* C4: the page count of the code equals
\* min(max_pages, max(1, ceil(count / page_size))): it is 1 for no results,
\* at least 1, and never above max_pages.
C4_Thm ==
  total_pages > 0 =>
    /\ total_pages = Min(MAX_PAGES,
                         Max(1, Ceil(total_results, RESULTS_PER_PAGE)))
    /\ total_results = 0 => total_pages = 1
    /\ total_pages >= 1
    /\ total_pages <= MAX_PAGES

\* More results than max_pages pages can hold: the count is capped.
C4_Witness ==
  /\ total_results > MAX_PAGES * RESULTS_PER_PAGE
  /\ total_pages = MAX_PAGES

\* C5: filtered_results is a subsequence of scored_items: each of its
\* elements occurs in scored_items and their relative order is the same.
C5_Thm ==
  shown =>
    /\ \A i \in DOMAIN filtered_results :
         PosIn(scored_items, filtered_results[i]) > 0
    /\ \A i, j \in DOMAIN filtered_results :
         i < j => PosIn(scored_items, filtered_results[i])
                    < PosIn(scored_items, filtered_results[j])

\* A filter dropped a ranked item lying between two kept items of a ranking
\* that is not the index order.
C5_Witness ==
  /\ shown
  /\ query = "b"
  /\ FilterActive
  /\ Len(scored_items) = 3
  /\ Len(filtered_results) = 2
  /\ filtered_results = <<scored_items[1], scored_items[3]>>

\* The filter contract alone: a ranked candidate is kept iff it satisfies
\* every active filter.
KeptIffSelected ==
  shown =>
    \A r \in DOMAIN scored_items :
      (PosIn(filtered_results, scored_items[r]) > 0)
        <=> Selected(metadata[scored_items[r][2]])

\* C6 (as stated): a ranked candidate is kept iff it satisfies every active
\* filter, and no record missing an optional field makes the run raise.
C6_Claim == KeptIffSelected /\ ~error

\* C7: the pages 1..total_pages put together are the first
\* min(N, MAX_PAGES * RESULTS_PER_PAGE) items of the list, in order; no page
\* is longer than RESULTS_PER_PAGE.
C7_Thm ==
  /\ Len(page_items) <= RESULTS_PER_PAGE
  /\ (total_pages > 0 /\ page_no = total_pages) =>
       assembled = SubSeq(filtered_results, 1,
                          Min(Len(filtered_results),
                              MAX_PAGES * RESULTS_PER_PAGE))

\* 12 matches: two pages, the second holding items 11 and 12.
C7_Witness ==
  /\ Len(filtered_results) = 12
  /\ total_pages = 2
  /\ page_no = 2
  /\ page_items = <<filtered_results[11], filtered_results[12]>>
  /\ assembled = filtered_results

\* C8 (as stated): a run with no filtered result shows 0 matches, page 1 of
\* 1, an empty page, and raises nothing.
C8_Claim ==
  (shown /\ total_results = 0) =>
    /\ total_pages = 1
    /\ page_shown = 1
    /\ page_items = <<>>
    /\ ~error

\* C9: the search ranks the whole corpus, so every record that satisfies the
\* active filters is in filtered_results; the result is not empty while a
\* matching record exists.
C9_Thm ==
  shown =>
    LET matching == { i \in DOMAIN metadata : Selected(metadata[i]) }
        kept == { filtered_results[p][2] : p \in DOMAIN filtered_results }
    IN  /\ Len(scored_items) = Len(metadata)
        /\ matching \subseteq kept
        /\ matching # {} => filtered_results # <<>>

\* A filter is active, none of the ten best-ranked records passes it, and
\* the matches further down the ranking are found.
C9_Witness ==
  /\ shown
  /\ FilterActive
  /\ Len(scored_items) > RESULTS_PER_PAGE
  /\ \A r \in 1..RESULTS_PER_PAGE : ~Selected(metadata[scored_items[r][2]])
  /\ filtered_results # <<>>

\* C10: current_page starts at 1, stays in 1..MAX_PAGES, moves by at most 1
\* per run, and moves only in a run that rendered its page and then called
\* go_next or go_prev.
C10_Thm ==
  /\ current_page = 1
  /\ [](current_page \in 1..MAX_PAGES)
  /\ [][/\ current_page' - current_page \in {-1, 0, 1}
        /\ current_page' # current_page =>
             /\ handler' \in {"go_next", "go_prev"}
             /\ shown'
             /\ ~error'
             /\ page_shown' = current_page]_vars

\* go_next stopped at MAX_PAGES although the results would fill more pages.
C10_Witness ==
  /\ current_page = MAX_PAGES
  /\ handler = "go_next"
  /\ page_shown = MAX_PAGES
  /\ total_results > MAX_PAGES * RESULTS_PER_PAGE
====
